---- MODULE Spec2Model ----
(***************************************************************************)
(* bookstore_api: the route table of startup.rs and the authors handlers   *)
(* of routes/authors.rs, over a model of the relational store they talk to.*)
(*                                                                         *)
(* A text is a sequence of symbols.  The words of the route table are one  *)
(* symbol each; identifier texts are sequences of digit symbols.           *)
(***************************************************************************)
EXTENDS Integers, Sequences, FiniteSets, TLC

VARIABLES
    heap,     \* table authors: the slots of its heap, in physical order
    users,    \* table users: its rows
    clock,    \* the last instant Utc::now() returned
    req,      \* the request handled last
    handler,  \* the handler the router dispatched it to
    resp,     \* the response it was answered with
    before,   \* the tables as they were when that request arrived
    issued,   \* the statements that request issued to the store
    tasks,    \* concurrent handling: each worker task's request and position
    serial    \* concurrent handling: the order in which statements executed

vars == <<heap, users, clock, req, handler, resp, before, issued, tasks, serial>>

-----------------------------------------------------------------------------
(* Bounds of the model *)

MaxSlots == 2
MaxClock == 3
MaxPathLen == 2
NumTasks == 2

-----------------------------------------------------------------------------
(* Texts *)

W(word) == <<word>>

Names == {"A", "B"}
Nationalities == {"X"}

HexDigits == <<"0", "1">>

IsHex(c) == \E i \in 1..Len(HexDigits) : HexDigits[i] = c
HexValue(c) == CHOOSE i \in 1..Len(HexDigits) : HexDigits[i] = c

\* Uuid::default(): the nil identifier
UuidNil == 0
\* its text form fixes the length of every identifier text
NilText == <<HexDigits[1], HexDigits[1]>>

RECURSIVE DigitsValue(_)
DigitsValue(s) ==
    IF s = <<>> THEN 0
    ELSE DigitsValue(SubSeq(s, 1, Len(s) - 1)) * Len(HexDigits)
         + (HexValue(s[Len(s)]) - 1)

\* Uuid::parse_str
ParseUuid(s) ==
    IF Len(s) = Len(NilText) /\ \A i \in 1..Len(s) : IsHex(s[i])
    THEN [ok |-> TRUE, val |-> DigitsValue(s)]
    ELSE [ok |-> FALSE, val |-> UuidNil]

\* Result::unwrap_or_default
UnwrapOrDefault(r) == IF r.ok THEN r.val ELSE UuidNil

\* Uuid's Display: the text ParseUuid reads back
UuidText(u) ==
    <<HexDigits[(u \div Len(HexDigits)) + 1], HexDigits[(u % Len(HexDigits)) + 1]>>

\* identifier texts: the well-formed ones, one too short, one with a symbol that is no digit
IdTexts ==
    {<<a, b>> : a \in {"0", "1"}, b \in {"0", "1"}} \cup {<<"1">>, <<"1", "g">>}
Uuids == {ParseUuid(t).val : t \in {t \in IdTexts : ParseUuid(t).ok}}
\* the identifiers the column default of authors.id generates
GeneratedIds == Uuids \ {UuidNil}

-----------------------------------------------------------------------------
(* Router: the route table registered in run *)

\* a {name} segment of a pattern
Param == <<"{", "}">>

Routes == <<
    [method |-> "GET",  pattern |-> <<W("health_check")>>,          handler |-> "health_check"],
    [method |-> "GET",  pattern |-> <<W("books")>>,                 handler |-> "books_index"],
    [method |-> "GET",  pattern |-> <<W("books"), Param>>,          handler |-> "show_book"],
    [method |-> "POST", pattern |-> <<W("books"), W("create")>>,    handler |-> "create_book"],
    [method |-> "POST", pattern |-> <<W("books"), W("delete")>>,    handler |-> "delete_book"],
    [method |-> "GET",  pattern |-> <<W("authors")>>,               handler |-> "authors_index"],
    [method |-> "GET",  pattern |-> <<W("authors"), Param>>,        handler |-> "show_author"],
    [method |-> "POST", pattern |-> <<W("authors"), W("create")>>,  handler |-> "create_author"],
    [method |-> "POST", pattern |-> <<W("authors"), W("delete")>>,  handler |-> "delete_author"],
    [method |-> "POST", pattern |-> <<W("users"), W("create")>>,    handler |-> "create_user"],
    [method |-> "GET",  pattern |-> <<W("seed_authors")>>,          handler |-> "seed_authors"] >>

\* a {name} segment matches one non-empty segment; any other segment matches itself
SegmentMatches(pat, seg) == IF pat = Param THEN seg # <<>> ELSE pat = seg

\* a mutant: the method guard is not consulted, only the pattern
MatchesPathOnly(e, m, p) ==
    /\ Len(e.pattern) = Len(p)
    /\ \A i \in 1..Len(p) : SegmentMatches(e.pattern[i], p[i])

\* web::get() / web::post() guard the entry; its pattern must match the whole path
Matches(e, m, p) ==
    /\ e.method = m
    /\ Len(e.pattern) = Len(p)
    /\ \A i \in 1..Len(p) : SegmentMatches(e.pattern[i], p[i])

Matching(m, p) == {i \in 1..Len(Routes) : Matches(Routes[i], m, p)}

\* entries are tried in the order of registration; no entry: the default service
Route(m, p) ==
    LET found == Matching(m, p)
    IN  IF found = {} THEN "default"
        ELSE Routes[CHOOSE i \in found : \A j \in found : i <= j].handler

-----------------------------------------------------------------------------
(* Responses *)

TextResponse(st, text) == [status |-> st, ctype |-> "text/plain", body |-> text]
JsonResponse(st, v) == [status |-> st, ctype |-> "application/json", body |-> v]
EmptyResponse(st) == [status |-> st, ctype |-> "", body |-> ""]
\* the handler panicked, or has not answered: the client reads no response
NoResponse == [status |-> 0, ctype |-> "", body |-> ""]

\* what the JSON extractor answers when the body does not deserialize
ExtractorErrors == {400, 422}

-----------------------------------------------------------------------------
(* The store: table authors *)

FreeSlot == [live |-> FALSE, id |-> UuidNil, name |-> "", nationality |-> "", created_at |-> 0]
Row(id, name, nationality, at) ==
    [live |-> TRUE, id |-> id, name |-> name, nationality |-> nationality, created_at |-> at]

LiveRows(h) == {h[i] : i \in {j \in 1..Len(h) : h[j].live}}
Ids(h) == {r.id : r \in LiveRows(h)}

\* where the heap can place a new row: a slot a delete freed, or the end
InsertSlots(h) ==
    {i \in 1..Len(h) : ~h[i].live} \cup (IF Len(h) < MaxSlots THEN {Len(h) + 1} ELSE {})

\* a mutant: the new row lands on the first slot, whatever it holds
InsertRowOverFirst(h, i, row) == IF h = <<>> THEN <<row>> ELSE [h EXCEPT ![1] = row]

\* INSERT INTO authors (name, nationality, created_at) VALUES ($1, $2, $3)
InsertRow(h, i, row) == IF i = Len(h) + 1 THEN Append(h, row) ELSE [h EXCEPT ![i] = row]

\* a mutant: the WHERE clause is lost
DeleteEveryRow(h, id) == [i \in 1..Len(h) |-> FreeSlot]

\* DELETE FROM authors WHERE id = $1
DeleteWhereId(h, id) ==
    [i \in 1..Len(h) |-> IF h[i].live /\ h[i].id = id THEN FreeSlot ELSE h[i]]

IsLive(r) == r.live
Author(r) == [name |-> r.name, nationality |-> r.nationality]

\* SELECT name, nationality FROM authors: the rows as the heap scan meets them
SelectNameNationality(h) ==
    LET live == SelectSeq(h, IsLive)
    IN  [i \in 1..Len(live) |-> Author(live[i])]

-----------------------------------------------------------------------------
(* Requests *)

NoBody == <<>>
Methods == {"GET", "POST", "DELETE"}
ApiMethods == {"GET", "POST"}

\* JSON bodies: a function from the fields present to their values
AuthorBodies ==
    {[name |-> n, nationality |-> t] : n \in Names, t \in Nationalities}
    \cup {[name |-> n] : n \in Names}
    \cup {[nationality |-> t] : t \in Nationalities}
    \cup {NoBody}
IdBodies == {[id |-> t] : t \in IdTexts \cup {<<>>}} \cup {NoBody}

AuthorPaths ==
    {<<W("authors")>>, <<W("authors"), W("create")>>, <<W("authors"), W("delete")>>}
    \cup {<<W("authors"), t>> : t \in IdTexts}
CreatePaths == {<<W("authors"), W("create")>>, <<W("users"), W("create")>>}

\* a mutant: a missing field deserializes to the empty text
JsonAuthorDefaultsMissing(b) ==
    [ok |-> TRUE,
     name |-> IF "name" \in DOMAIN b THEN b.name ELSE "",
     nationality |-> IF "nationality" \in DOMAIN b THEN b.nationality ELSE ""]

\* web::Json<Author>: both fields are required by the struct
JsonAuthor(b) ==
    IF "name" \in DOMAIN b /\ "nationality" \in DOMAIN b
    THEN [ok |-> TRUE, name |-> b.name, nationality |-> b.nationality]
    ELSE [ok |-> FALSE, name |-> "", nationality |-> ""]

\* web::Json<AuthorId>
JsonAuthorId(b) ==
    IF "id" \in DOMAIN b THEN [ok |-> TRUE, id |-> b.id] ELSE [ok |-> FALSE, id |-> <<>>]

-----------------------------------------------------------------------------
(* Handlers of routes/authors.rs *)

Created == "Author created successfully!\n"

\* authors_index: fetch_all(..).await.expect(..), then Ok().json(authors)
AuthorsIndexReply(ok, rows) == IF ok THEN JsonResponse(200, rows) ELSE NoResponse

\* create_author: the two arms of its match
CreateAuthorReply(ok) == IF ok THEN TextResponse(200, Created) ELSE EmptyResponse(500)

\* a mutant: $1 and $2 bound the other way round
NewAuthorRowSwapped(id, input, now) == Row(id, input.nationality, input.name, now)

\* create_author: the values bound to $1, $2, $3; the id is the column's default
NewAuthorRow(id, input, now) == Row(id, input.name, input.nationality, now)

\* a mutant: the arms of the match the other way round
DeleteAuthorReplySwapped(ok) == IF ok THEN EmptyResponse(500) ELSE TextResponse(200, Created)

\* delete_author: the two arms of its match
DeleteAuthorReply(ok) == IF ok THEN TextResponse(200, Created) ELSE EmptyResponse(500)

\* delete_author: Uuid::parse_str(&input.id).unwrap_or_default()
DeleteTarget(text) == UnwrapOrDefault(ParseUuid(text))

Answer(m, p, b, h, r, stmts) ==
    /\ req' = [method |-> m, path |-> p, body |-> b]
    /\ handler' = h
    /\ resp' = r
    /\ issued' = stmts
    /\ before' = [authors |-> heap, users |-> users]
    /\ UNCHANGED <<tasks, serial>>

authors_index(m, p) ==
    /\ \E up \in BOOLEAN :
          Answer(m, p, NoBody, "authors_index",
                 AuthorsIndexReply(up, SelectNameNationality(heap)),
                 <<[op |-> "SELECT", ok |-> up]>>)
    /\ UNCHANGED <<heap, users, clock>>

create_author(m, p) ==
    /\ \E b \in AuthorBodies :
       LET input == JsonAuthor(b)
           now == clock + 1
       IN  IF ~input.ok
           THEN /\ \E st \in ExtractorErrors :
                      Answer(m, p, b, "create_author", EmptyResponse(st), <<>>)
                /\ UNCHANGED <<heap, users, clock>>
           ELSE /\ clock < MaxClock
                /\ clock' = now
                /\ \E up \in BOOLEAN :
                      /\ Answer(m, p, b, "create_author", CreateAuthorReply(up),
                                <<[op |-> "INSERT", ok |-> up]>>)
                      /\ IF up
                         THEN \E id \in GeneratedIds \ Ids(heap), i \in InsertSlots(heap) :
                                heap' = InsertRow(heap, i, NewAuthorRow(id, input, now))
                         ELSE heap' = heap
                /\ UNCHANGED users

delete_author(m, p) ==
    /\ \E b \in IdBodies :
       LET input == JsonAuthorId(b)
       IN  IF ~input.ok
           THEN /\ \E st \in ExtractorErrors :
                      Answer(m, p, b, "delete_author", EmptyResponse(st), <<>>)
                /\ UNCHANGED <<heap, users, clock>>
           ELSE /\ \E up \in BOOLEAN :
                      /\ Answer(m, p, b, "delete_author", DeleteAuthorReply(up),
                                <<[op |-> "DELETE", id |-> DeleteTarget(input.id), ok |-> up]>>)
                      /\ heap' = IF up THEN DeleteWhereId(heap, DeleteTarget(input.id))
                                       ELSE heap
                /\ UNCHANGED <<users, clock>>

-----------------------------------------------------------------------------
(* Handlers this repository keeps outside routes/authors.rs *)

Emails == {<<"u", "@", "d">>, <<"u", "d">>, <<"@", "d">>}
UserBodies == {[name |-> n, email |-> e] : n \in {"A"}, e \in Emails} \cup {[name |-> "A"]}

\* a syntactically valid address: one "@", with text on both sides of it
IsEmail(t) ==
    \E i \in 2..(Len(t) - 1) :
        /\ t[i] = "@"
        /\ \A j \in 1..Len(t) : j # i => t[j] # "@"

JsonUser(b) ==
    IF "name" \in DOMAIN b /\ "email" \in DOMAIN b
    THEN [ok |-> TRUE, name |-> b.name, email |-> b.email]
    ELSE [ok |-> FALSE, name |-> "", email |-> <<>>]

\* GET /authors/{author_id}: 400 on an id that does not parse, 404 when no row has it
show_author(m, p) ==
    /\ LET parsed == ParseUuid(p[Len(p)])
           found == {r \in LiveRows(heap) : r.id = parsed.val}
       IN  IF ~parsed.ok
           THEN Answer(m, p, NoBody, "show_author", EmptyResponse(400), <<>>)
           ELSE Answer(m, p, NoBody, "show_author",
                       IF found = {} THEN EmptyResponse(404)
                       ELSE LET r == CHOOSE x \in found : TRUE
                            IN  JsonResponse(200, [id |-> UuidText(r.id), name |-> r.name,
                                                   nationality |-> r.nationality]),
                       <<[op |-> "SELECT", id |-> parsed.val, ok |-> TRUE]>>)
    /\ UNCHANGED <<heap, users, clock>>

\* POST /users/create: name and a syntactically valid email are required
create_user(m, p) ==
    /\ \E b \in UserBodies :
       LET input == JsonUser(b)
           now == clock + 1
       IN  IF ~input.ok
           THEN /\ \E st \in ExtractorErrors :
                      Answer(m, p, b, "create_user", EmptyResponse(st), <<>>)
                /\ UNCHANGED <<heap, users, clock>>
           ELSE IF ~IsEmail(input.email)
           THEN /\ Answer(m, p, b, "create_user", EmptyResponse(400), <<>>)
                /\ UNCHANGED <<heap, users, clock>>
           ELSE /\ clock < MaxClock
                /\ clock' = now
                /\ \E up \in BOOLEAN :
                      /\ Answer(m, p, b, "create_user",
                                IF up THEN EmptyResponse(200) ELSE EmptyResponse(500),
                                <<[op |-> "INSERT", ok |-> up]>>)
                      /\ users' = IF up
                                  THEN Append(users, [name |-> input.name,
                                                      email |-> input.email,
                                                      created_at |-> now])
                                  ELSE users
                /\ UNCHANGED heap

\* the default service
NotFound(m, p) ==
    /\ Answer(m, p, NoBody, "default", EmptyResponse(404), <<>>)
    /\ UNCHANGED <<heap, users, clock>>

-----------------------------------------------------------------------------
(* Specification: requests handled one at a time *)

Init ==
    /\ heap = <<>>
    /\ users = <<>>
    /\ clock = 0
    /\ req = [method |-> "GET", path |-> <<>>, body |-> NoBody]
    /\ handler = "none"
    /\ resp = NoResponse
    /\ before = [authors |-> <<>>, users |-> <<>>]
    /\ issued = <<>>
    /\ tasks = <<>>
    /\ serial = <<>>

Next ==
    \E m \in ApiMethods, p \in AuthorPaths :
        LET h == Route(m, p)
        IN
            \/ h = "authors_index" /\ authors_index(m, p)
            \/ h = "create_author" /\ create_author(m, p)
            \/ h = "delete_author" /\ delete_author(m, p)
            \/ h = "show_author" /\ show_author(m, p)
            \/ h = "default" /\ NotFound(m, p)

Spec == Init /\ [][Next]_vars

-----------------------------------------------------------------------------
(* Specification: the create endpoints of both tables *)

NextCreate ==
    \E m \in ApiMethods, p \in CreatePaths :
        LET h == Route(m, p)
        IN
            \/ h = "create_author" /\ create_author(m, p)
            \/ h = "create_user" /\ create_user(m, p)
            \/ h = "default" /\ NotFound(m, p)

SpecCreate == Init /\ [][NextCreate]_vars

-----------------------------------------------------------------------------
(* Specification: the router alone, over every method and path *)

Words == {"health_check", "books", "authors", "users", "seed_authors", "create", "delete"}
\* the segments of a request path: a word, an identifier text, or nothing between two slashes
Segments == {W(w) : w \in Words} \cup {UuidText(1), <<>>}

RECURSIVE PathsOfLen(_)
PathsOfLen(n) ==
    IF n = 0 THEN {<<>>}
    ELSE {Append(q, g) : q \in PathsOfLen(n - 1), g \in Segments}

Paths == UNION {PathsOfLen(n) : n \in 0..MaxPathLen}

InitRouter ==
    /\ heap = <<>>
    /\ users = <<>>
    /\ clock = 0
    /\ req \in [method : Methods, path : Paths, body : {NoBody}]
    /\ handler = "none"
    /\ resp = NoResponse
    /\ before = [authors |-> <<>>, users |-> <<>>]
    /\ issued = <<>>
    /\ tasks = <<>>
    /\ serial = <<>>

\* the router picks the handler; the handler has not answered yet
Dispatch ==
    /\ handler = "none"
    /\ handler' = Route(req.method, req.path)
    /\ resp' = IF Route(req.method, req.path) = "default" THEN EmptyResponse(404)
               ELSE NoResponse
    /\ UNCHANGED <<heap, users, clock, req, before, issued, tasks, serial>>

NextRouter == Dispatch

SpecRouter == InitRouter /\ [][NextRouter]_vars

-----------------------------------------------------------------------------
(* Specification: create and delete requests handled concurrently.          *)
(* A handler binds its statement's parameters, awaits the store, which runs *)
(* the statement as one step, and then answers.                             *)

Tasks == 1..NumTasks

ConcBodies ==
    {[name |-> n, nationality |-> t] : n \in Names, t \in Nationalities}
    \cup {[id |-> UuidText(u)] : u \in GeneratedIds}

NewTask(b) ==
    [body |-> b, pc |-> "start", now |-> 0, target |-> UuidNil, ok |-> FALSE,
     resp |-> NoResponse]

IsCreate(t) == "name" \in DOMAIN tasks[t].body
IsDelete(t) == "id" \in DOMAIN tasks[t].body

InitConc ==
    /\ heap = <<>>
    /\ users = <<>>
    /\ clock = 0
    /\ req = [method |-> "GET", path |-> <<>>, body |-> NoBody]
    /\ handler = "none"
    /\ resp = NoResponse
    /\ before = [authors |-> <<>>, users |-> <<>>]
    /\ issued = <<>>
    /\ tasks \in [Tasks -> {NewTask(b) : b \in ConcBodies}]
    /\ serial = <<>>

\* create_author up to .execute(..): Utc::now() is read as the parameters are bound
BindCreate(t) ==
    /\ IsCreate(t) /\ tasks[t].pc = "start"
    /\ clock < MaxClock
    /\ clock' = clock + 1
    /\ tasks' = [tasks EXCEPT ![t].pc = "bound", ![t].now = clock + 1]
    /\ UNCHANGED <<heap, users, req, handler, resp, before, issued, serial>>

\* delete_author up to .execute(..)
BindDelete(t) ==
    /\ IsDelete(t) /\ tasks[t].pc = "start"
    /\ tasks' = [tasks EXCEPT ![t].pc = "bound",
                              ![t].target = DeleteTarget(JsonAuthorId(tasks[t].body).id)]
    /\ UNCHANGED <<heap, users, clock, req, handler, resp, before, issued, serial>>

\* the store runs the INSERT
ExecuteInsert(t) ==
    /\ IsCreate(t) /\ tasks[t].pc = "bound"
    /\ \E up \in BOOLEAN :
          /\ tasks' = [tasks EXCEPT ![t].pc = "executed", ![t].ok = up]
          /\ IF up
             THEN \E id \in GeneratedIds \ Ids(heap), i \in InsertSlots(heap) :
                    /\ heap' = InsertRow(heap, i,
                                   NewAuthorRow(id, JsonAuthor(tasks[t].body), tasks[t].now))
                    /\ serial' = Append(serial, [task |-> t, ok |-> TRUE, id |-> id])
             ELSE /\ heap' = heap
                  /\ serial' = Append(serial, [task |-> t, ok |-> FALSE, id |-> UuidNil])
    /\ UNCHANGED <<users, clock, req, handler, resp, before, issued>>

\* the store runs the DELETE
ExecuteDelete(t) ==
    /\ IsDelete(t) /\ tasks[t].pc = "bound"
    /\ \E up \in BOOLEAN :
          /\ tasks' = [tasks EXCEPT ![t].pc = "executed", ![t].ok = up]
          /\ heap' = IF up THEN DeleteWhereId(heap, tasks[t].target) ELSE heap
          /\ serial' = Append(serial, [task |-> t, ok |-> up, id |-> tasks[t].target])
    /\ UNCHANGED <<users, clock, req, handler, resp, before, issued>>

\* the match on the statement's result
Reply(t) ==
    /\ tasks[t].pc = "executed"
    /\ tasks' = [tasks EXCEPT ![t].pc = "done",
                              ![t].resp = IF IsCreate(t) THEN CreateAuthorReply(tasks[t].ok)
                                          ELSE DeleteAuthorReply(tasks[t].ok)]
    /\ UNCHANGED <<heap, users, clock, req, handler, resp, before, issued, serial>>

NextConc ==
    \E t \in Tasks :
        \/ BindCreate(t)
        \/ BindDelete(t)
        \/ ExecuteInsert(t)
        \/ ExecuteDelete(t)
        \/ Reply(t)

SpecConc == InitConc /\ [][NextConc]_vars

-----------------------------------------------------------------------------
(* Properties *)

HasAuthorFields(b) == "name" \in DOMAIN b /\ "nationality" \in DOMAIN b
HasId(b) == "id" \in DOMAIN b
StoreAccepted == Len(issued) = 1 /\ issued[1].ok
StoreRefused == Len(issued) >= 1 /\ ~issued[1].ok
ClientError == resp.status \in 400..499
StoreUntouched == heap = before.authors /\ users = before.users /\ issued = <<>>

\* C1: a create request with a required field missing, or with a malformed
\* email, is answered with a 4xx; no statement is issued and both tables are as
\* they were, whatever rows they held.
C1_ValidationGate ==
    \/ handler = "create_author" /\ ~HasAuthorFields(req.body)
    \/ handler = "create_user" /\ ("email" \notin DOMAIN req.body \/ ~IsEmail(req.body.email))
    => ClientError /\ StoreUntouched

C1_Witness ==
    /\ handler = "create_author"
    /\ "name" \in DOMAIN req.body /\ "nationality" \notin DOMAIN req.body
    /\ LiveRows(heap) # {} /\ users # <<>>
    /\ ClientError

\* C2: a create with both fields present that the store accepts is answered
\* with 200 and adds exactly one row, which carries the given name and
\* nationality and an id no stored row had; every row stored before is
\* unchanged, also when it holds the same name and nationality.
C2_CreateAddsOneRow ==
    handler = "create_author" /\ HasAuthorFields(req.body) /\ StoreAccepted
    => /\ resp.status = 200
       /\ \E r \in LiveRows(heap) :
            /\ r.name = req.body.name
            /\ r.nationality = req.body.nationality
            /\ r.id \notin Ids(before.authors)
            /\ LiveRows(heap) = LiveRows(before.authors) \cup {r}
       /\ Cardinality(LiveRows(heap)) = Cardinality(LiveRows(before.authors)) + 1
       /\ \A i \in 1..Len(before.authors) :
            before.authors[i].live => heap[i] = before.authors[i]

C2_Witness ==
    /\ handler = "create_author" /\ StoreAccepted /\ resp.status = 200
    /\ \E r \in LiveRows(before.authors) :
         r.name = req.body.name /\ r.nationality = req.body.nationality
    /\ Cardinality(LiveRows(heap)) = 2

\* the rows of a table in the order of their creation
RECURSIVE ByCreation(_)
ByCreation(rows) ==
    IF rows = {} THEN <<>>
    ELSE LET first == CHOOSE r \in rows : \A o \in rows : r.created_at <= o.created_at
         IN  <<Author(first)>> \o ByCreation(rows \ {first})

\* C3: GET /authors returns one {name, nationality} element for every row
\* present, in the order in which the rows were created.
C3_ListInCreationOrder ==
    handler = "authors_index" /\ resp.status = 200
    => resp.body = ByCreation(LiveRows(heap))

\* C4: a delete with the identifier of a present author, accepted by the
\* store, removes that row and no other.
C4_DeleteRemovesOnlyTarget ==
    handler = "delete_author" /\ HasId(req.body) /\ StoreAccepted
    => \A r \in LiveRows(before.authors) :
         req.body.id = UuidText(r.id)
         => /\ LiveRows(heap) = LiveRows(before.authors) \ {r}
            /\ r.id \notin Ids(heap)
            /\ Cardinality(LiveRows(heap)) = Cardinality(LiveRows(before.authors)) - 1

C4_Witness ==
    /\ handler = "delete_author" /\ HasId(req.body) /\ StoreAccepted
    /\ \E r \in LiveRows(before.authors) : req.body.id = UuidText(r.id)
    /\ Cardinality(LiveRows(before.authors)) = 2
    /\ Cardinality(LiveRows(heap)) = 1

WellFormedId(text) == \E u \in Uuids : text = UuidText(u)

\* C5: a delete whose id text is no identifier is answered with an error and
\* issues no DELETE, for the nil identifier or any other; no row is removed.
C5_InvalidIdRejected ==
    handler = "delete_author" /\ HasId(req.body) /\ ~WellFormedId(req.body.id)
    => /\ resp.status >= 400
       /\ issued = <<>>
       /\ heap = before.authors

\* C6: the response to a successful create names the created row's id in its
\* JSON field author_id, and showing an author by id returns that row's id,
\* name and nationality.
C6_RoundTrip ==
    /\ handler = "create_author" /\ resp.status = 200
       => /\ resp.ctype = "application/json"
          /\ "author_id" \in DOMAIN resp.body
          /\ \E r \in LiveRows(heap) \ LiveRows(before.authors) :
               resp.body.author_id = UuidText(r.id)
    /\ handler = "show_author" /\ resp.status = 200
       => \E r \in LiveRows(heap) :
            resp.body = [id |-> req.path[Len(req.path)], name |-> r.name,
                         nationality |-> r.nationality]

\* C7: a delete with a well-formed identifier that the store accepts is
\* answered with 200 whether or not a row has that id; when none has (as on
\* the second of two deletes of one id) the table is unchanged.
C7_IdempotentDelete ==
    handler = "delete_author" /\ HasId(req.body) /\ WellFormedId(req.body.id)
        /\ StoreAccepted
    => /\ resp.status = 200
       /\ (\A r \in LiveRows(before.authors) : req.body.id # UuidText(r.id))
          => heap = before.authors

C7_Witness ==
    /\ handler = "delete_author" /\ HasId(req.body) /\ WellFormedId(req.body.id)
    /\ StoreAccepted /\ resp.status = 200
    /\ \A r \in LiveRows(before.authors) : req.body.id # UuidText(r.id)
    /\ LiveRows(heap) # {}
    /\ \E i \in 1..Len(heap) : ~heap[i].live

\* C8: when the store refuses the statement of GET /authors, POST
\* /authors/create or POST /authors/delete, the request is answered with 500,
\* the statement was issued once, and the rows are unchanged.
C8_StoreFailureIs500 ==
    handler \in {"authors_index", "create_author", "delete_author"} /\ StoreRefused
    => /\ resp.status = 500
       /\ Len(issued) = 1
       /\ heap = before.authors

\* C9: at most one entry of the route table matches a request; the request is
\* dispatched to that entry's handler, and to the not-found response when no
\* entry matches.
C9_RouterDispatch ==
    handler # "none"
    => LET found == Matching(req.method, req.path)
       IN  /\ Cardinality(found) <= 1
           /\ \A i \in found : handler = Routes[i].handler
           /\ found = {} => handler = "default" /\ resp.status = 404

C9_Witness ==
    /\ handler = "show_author"
    /\ req.method = "GET"
    /\ req.path = <<W("authors"), W("create")>>

\* the rows left by running, one at a time, the first k statements of serial
RECURSIVE OneAtATime(_)
OneAtATime(k) ==
    IF k = 0 THEN {}
    ELSE LET e == serial[k]
             t == tasks[e.task]
             rows == OneAtATime(k - 1)
         IN  IF ~e.ok THEN rows
             ELSE IF IsCreate(e.task)
             THEN rows \cup {Row(e.id, t.body.name, t.body.nationality, t.now)}
             ELSE {r \in rows : UuidText(r.id) # t.body.id}

AllDone == \A t \in Tasks : tasks[t].pc = "done"

\* C10: when concurrently handled creates and deletes have all been answered,
\* the rows are those left by running the same requests one at a time in some
\* order; n successful creates with no deletes leave exactly n rows.
C10_ConcurrentAsSerial ==
    AllDone
    => /\ Len(serial) = NumTasks
       /\ {serial[k].task : k \in 1..Len(serial)} = Tasks
       /\ LiveRows(heap) = OneAtATime(Len(serial))
       /\ (\A t \in Tasks : IsCreate(t))
          => Cardinality(LiveRows(heap))
               = Cardinality({t \in Tasks : tasks[t].resp.status = 200})

C10_Witness ==
    /\ AllDone
    /\ \A t \in Tasks : IsCreate(t) /\ tasks[t].resp.status = 200
    /\ tasks[serial[1].task].now > tasks[serial[2].task].now

====
